---- MODULE Spec2Model ----
(***************************************************************************)
(* State-machine model of the smart irrigation controllers of              *)
(* ttaylor0024/HA_Z2M_Smart_Irrigation:                                     *)
(*   "app"  src/smart_irrigation/app/main.py      (60 s inline tick loop)   *)
(*   "z2m"  src/z2m_smart_irrigation/app/main.py  (schedule job, tick tasks)*)
(* Time is wall-clock seconds since midnight of one day; rain is in whole   *)
(* millimetres; water is in tenths of a litre; a float factor is an exact   *)
(* fraction [num, den].                                                     *)
(***************************************************************************)
EXTENDS Integers, Sequences, FiniteSets, TLC

VARIABLES
    variant,    \* which controller is running: "app" or "z2m"
    config,     \* self.config: weather provider and rain rules
    zones,      \* self.zones: zone name -> IrrigationZone fields
    stats,      \* self.stats (app)
    tasks,      \* asyncio tasks: ticks and manual runs, by slot
    main,       \* the main() coroutine: its position and wake-up time
    now,        \* wall clock, seconds since midnight
    valve,      \* the Home Assistant entity behind each zone: "on"/"off"
    sensors,    \* the sensor entities of each zone: their states
    ended,      \* the run_zone call that ended last at this instant
    lastEval,   \* record of the most recent check_weather_conditions call
    response,   \* JSON answer of the most recent Flask handler
    calls,      \* number of Flask requests served so far
    history,    \* the history store's entry for today
    historyLog, \* the calls made on the history store, in order
    cycle       \* the single-shot MQTT script: its position and its messages

vars == <<variant, config, zones, stats, tasks, main, now, valve, sensors,
          ended, lastEval, response, calls, history, historyLog, cycle>>

-----------------------------------------------------------------------------
(* Bounds of the model *)

MaxElapsed == 130       \* seconds of running time explored
MaxTasks == 2           \* task slots (live asyncio tasks besides main)
RequestEvery == 30      \* seconds between the instants a request can arrive
MaxCalls == 1           \* Flask requests served in one behaviour
MaxStops == 2           \* stopZone calls made in one behaviour
MaxHistoryCalls == 4    \* calls made on the history store in one behaviour

(* Program constants *)

TickSleepApp == 60      \* asyncio.sleep(60) of the app main loop
WindowApp == 60         \* abs(...) <= 60 of the app tick
PollSleep == 6          \* asyncio.sleep(6) of the app wait loop
JobPeriodZ2M == 60      \* schedule.every(1).minutes
MainSleepZ2M == 30      \* asyncio.sleep(30) of the z2m main loop
WindowZ2M == 300        \* abs(...) <= 300 of the z2m tick
SecondsPerMinute == 60  \* duration * 60
SavedPerMinute == 10    \* "Assuming 10L/min average"
HighConfidence == 80    \* z2m: skip_chance >= 80
CapZ2M == 80            \* z2m: min(0.8, ...), in hundredths
DefaultMoistureThreshold == 30

-----------------------------------------------------------------------------
(* Exact fractions for the float arithmetic of the weather rules *)

Frac(n, d) == [num |-> n, den |-> d]

One == Frac(1, 1)

FracLE(a, b) == a.num * b.den <= b.num * a.den

FracEq(a, b) == a.num * b.den = b.num * a.den

FracMin(a, b) == IF FracLE(a, b) THEN a ELSE b

OneMinus(a) == Frac(a.den - a.num, a.den)

Min(a, b) == IF a <= b THEN a ELSE b

Max(a, b) == IF a >= b THEN a ELSE b

-----------------------------------------------------------------------------
(* Weather provider: what a query can return *)

Providers == {"openweathermap", "weatherapi", "bogus"}

RainValues == {0, 5, 12, 30}

ChanceValues == {0, 70, 90}

ErrorForecast == [status |-> "error", rain_mm |-> 0, rain_chance |-> 0]

ErrorRecent == [status |-> "error", rain_mm |-> 0, rain_chance |-> 0]

Raised == [status |-> "raised", rain_mm |-> 0, rain_chance |-> 0]

SuccessResults(chances) ==
    [status : {"success"}, rain_mm : RainValues, rain_chance : chances]

(* app get_forecast: every exception is caught and becomes an error dict *)
GetForecastApp(provider) ==
    IF provider = "bogus" THEN {ErrorForecast}
    ELSE SuccessResults(ChanceValues) \cup {ErrorForecast}

(* app get_recent_rain: the same, without rain_chance *)
GetRecentRainApp(provider) ==
    IF provider = "bogus" THEN {ErrorRecent}
    ELSE SuccessResults({0}) \cup {ErrorRecent}

(* z2m get_forecast: no try/except; _get_weatherapi_forecast does not exist *)
GetForecastZ2M(provider) ==
    IF provider = "openweathermap"
    THEN SuccessResults({0}) \cup {ErrorForecast, Raised}
    ELSE {Raised}

(* z2m get_recent_rain: a float; _get_openweather_history returns 0.0 *)
GetRecentRainZ2M(provider) ==
    IF provider = "openweathermap"
    THEN {[status |-> "success", rain_mm |-> 0, rain_chance |-> 0]}
    ELSE {Raised}

GetForecast(v, provider) ==
    IF v = "app" THEN GetForecastApp(provider) ELSE GetForecastZ2M(provider)

GetRecentRain(v, provider) ==
    IF v = "app" THEN GetRecentRainApp(provider) ELSE GetRecentRainZ2M(provider)

-----------------------------------------------------------------------------
(* check_weather_conditions *)

NoValue == -1

InitialConditions ==
    [skip_irrigation |-> FALSE, reduce_duration |-> FALSE,
     reduction_factor |-> One, reason |-> "",
     forecast_rain |-> NoValue, rain_chance |-> NoValue,
     recent_rain |-> NoValue]

(* the result of one evaluation; queried_*, aborted and skips describe the
   call itself: which queries were awaited, whether an exception left the
   function, and how often weather_skip_count was incremented *)
Evaluation(c, qf, qr, ab, n) ==
    [conditions |-> c, queried_forecast |-> qf, queried_recent |-> qr,
     aborted |-> ab, skips |-> n]

(* faulty variant of ReductionApp: the threshold is not doubled *)
ReductionAppUndoubled(cfg, recent_rain) ==
    FracMin(Frac(cfg.compensation_ratio, 100),
            Frac(recent_rain, cfg.recent_threshold))

(* reduction = min(ratio, recent_rain / (threshold * 2)) *)
ReductionApp(cfg, recent_rain) ==
    FracMin(Frac(cfg.compensation_ratio, 100),
            Frac(recent_rain, cfg.recent_threshold * 2))

(* faulty variant of ForecastCheckApp: a rain chance equal to the threshold
   does not skip *)
ForecastCheckAppStrict(cfg, c, fc) ==
    IF fc.status # "success" THEN c
    ELSE LET d == [c EXCEPT !.forecast_rain = fc.rain_mm,
                            !.rain_chance = fc.rain_chance]
         IN IF fc.rain_chance > cfg.skip_percentage
            THEN [d EXCEPT !.skip_irrigation = TRUE, !.reason = "rain_chance"]
            ELSE IF fc.rain_mm >= cfg.forecast_threshold
            THEN [d EXCEPT !.skip_irrigation = TRUE, !.reason = "forecast_rain"]
            ELSE d

(* app, lines 386-408 *)
ForecastCheckApp(cfg, c, fc) ==
    IF fc.status # "success" THEN c
    ELSE LET d == [c EXCEPT !.forecast_rain = fc.rain_mm,
                            !.rain_chance = fc.rain_chance]
         IN IF fc.rain_chance >= cfg.skip_percentage
            THEN [d EXCEPT !.skip_irrigation = TRUE, !.reason = "rain_chance"]
            ELSE IF fc.rain_mm >= cfg.forecast_threshold
            THEN [d EXCEPT !.skip_irrigation = TRUE, !.reason = "forecast_rain"]
            ELSE d

(* app, lines 416-433 *)
RecentCheckApp(cfg, c, rc) ==
    IF rc.status # "success" THEN c
    ELSE LET d == [c EXCEPT !.recent_rain = rc.rain_mm]
         IN IF rc.rain_mm >= cfg.recent_threshold
            THEN IF cfg.compensation_enabled
                 THEN [d EXCEPT !.reduce_duration = TRUE,
                                !.reduction_factor =
                                    OneMinus(ReductionApp(cfg, rc.rain_mm)),
                                !.reason = "recent_reduce"]
                 ELSE [d EXCEPT !.skip_irrigation = TRUE,
                                !.reason = "recent_skip"]
            ELSE d

(* faulty variant of CheckWeatherApp: recent rain is checked after a skip
   too *)
CheckWeatherAppAlwaysRecent(cfg, fc, rc) ==
    LET qf == cfg.forecast_enabled
        c1 == IF qf THEN ForecastCheckApp(cfg, InitialConditions, fc)
              ELSE InitialConditions
        qr == cfg.recent_enabled
        c2 == IF qr THEN RecentCheckApp(cfg, c1, rc) ELSE c1
        n  == (IF c1.skip_irrigation THEN 1 ELSE 0)
              + (IF c2.skip_irrigation /\ ~c1.skip_irrigation THEN 1 ELSE 0)
    IN Evaluation(c2, qf, qr, FALSE, n)

(* app, lines 373-435: recent rain is checked only if nothing skipped *)
CheckWeatherApp(cfg, fc, rc) ==
    LET qf == cfg.forecast_enabled
        c1 == IF qf THEN ForecastCheckApp(cfg, InitialConditions, fc)
              ELSE InitialConditions
        qr == cfg.recent_enabled /\ ~c1.skip_irrigation
        c2 == IF qr THEN RecentCheckApp(cfg, c1, rc) ELSE c1
        n  == (IF c1.skip_irrigation THEN 1 ELSE 0)
              + (IF c2.skip_irrigation /\ ~c1.skip_irrigation THEN 1 ELSE 0)
    IN Evaluation(c2, qf, qr, FALSE, n)

(* faulty variant of ForecastCheckZ2M: every forecast at or over the
   threshold skips, whatever its skip_chance *)
ForecastCheckZ2MByThreshold(cfg, c, fc) ==
    IF fc.status # "success" THEN c
    ELSE IF fc.rain_mm >= cfg.forecast_threshold
         THEN [c EXCEPT !.skip_irrigation = TRUE, !.reason = "heavy_forecast"]
         ELSE c

(* z2m, lines 178-187: skip_chance = min(100, rain / threshold * pct) >= 80 *)
ForecastCheckZ2M(cfg, c, fc) ==
    IF fc.status # "success" THEN c
    ELSE IF fc.rain_mm >= cfg.forecast_threshold
            /\ FracLE(Frac(HighConfidence, 1),
                      FracMin(Frac(100, 1),
                              Frac(fc.rain_mm * cfg.skip_percentage,
                                   cfg.forecast_threshold)))
         THEN [c EXCEPT !.skip_irrigation = TRUE, !.reason = "heavy_forecast"]
         ELSE c

(* z2m, lines 195-205 *)
RecentCheckZ2M(cfg, c, rc) ==
    IF rc.rain_mm >= cfg.recent_threshold
    THEN IF cfg.compensation_enabled
         THEN [c EXCEPT !.reduce_duration = TRUE,
                        !.reduction_factor =
                            OneMinus(FracMin(Frac(CapZ2M, 100),
                                Frac(rc.rain_mm, cfg.recent_threshold * 2))),
                        !.reason = "recent_reduce"]
         ELSE [c EXCEPT !.skip_irrigation = TRUE, !.reason = "recent_skip"]
    ELSE c

CheckWeatherZ2M(cfg, fc, rc) ==
    LET qf == cfg.forecast_enabled
        c1 == IF qf /\ fc.status # "raised"
              THEN ForecastCheckZ2M(cfg, InitialConditions, fc)
              ELSE InitialConditions
        ab1 == qf /\ fc.status = "raised"
        qr == cfg.recent_enabled /\ ~ab1
        ab2 == qr /\ rc.status = "raised"
        c2 == IF qr /\ ~ab2 THEN RecentCheckZ2M(cfg, c1, rc) ELSE c1
    IN IF ab1 \/ ab2
       THEN Evaluation(InitialConditions, qf, qr, TRUE, 0)
       ELSE Evaluation(c2, qf, qr, FALSE, 0)

CheckWeather(v, cfg, fc, rc) ==
    IF v = "app" THEN CheckWeatherApp(cfg, fc, rc)
    ELSE CheckWeatherZ2M(cfg, fc, rc)

NoEvaluation == Evaluation(InitialConditions, FALSE, FALSE, FALSE, 0)

-----------------------------------------------------------------------------
(* IrrigationZone *)

ZoneOrder == <<"front", "back">>     \* self.zones, in configuration order

ZoneNames == {ZoneOrder[i] : i \in 1..Len(ZoneOrder)}

UnknownZone == "nowhere"             \* a zone_name no zone has

(* day names are sequences of characters, so that lower()[:3] is computed *)
Lower(ch) ==
    CASE ch = "M" -> "m" [] ch = "O" -> "o" [] ch = "N" -> "n"
      [] ch = "T" -> "t" [] ch = "U" -> "u" [] ch = "E" -> "e"
      [] OTHER -> ch

DayTag(day) == [i \in 1..Min(3, Len(day)) |-> Lower(day[i])]

Today == <<"m", "o", "n">>           \* strftime('%a').lower() on a Monday

DayLists ==
    { {<<"M", "o", "n">>},
      {<<"m", "o", "n", "d", "a", "y">>, <<"T", "U", "E">>},
      {<<"t", "u", "e">>} }

Schedules == {<<5, 0>>}              \* "05:00"

(* should_run_today *)
ShouldRunToday(v, z) ==
    /\ (v = "app" => z.enabled = TRUE)
    /\ Today \in {DayTag(d) : d \in z.days}

(* get_schedule_time, as seconds since midnight *)
ScheduleTime(z) == z.schedule[1] * 3600 + z.schedule[2] * 60

Window(v) == IF v = "app" THEN WindowApp ELSE WindowZ2M

Abs(x) == IF x >= 0 THEN x ELSE -x

(* faulty variant of Matches: the edge of the window is left out *)
MatchesInside(v, z, t) ==
    /\ ShouldRunToday(v, z)
    /\ Abs(t - ScheduleTime(z)) < Window(v)

(* the tick's test for one zone: lines 551-556 (app), 263-268 (z2m) *)
Matches(v, z, t) ==
    /\ ShouldRunToday(v, z)
    /\ Abs(t - ScheduleTime(z)) <= Window(v)

NewZone(duration, schedule, days, flow, moisture) ==
    [duration |-> duration, schedule |-> schedule, days |-> days,
     enabled |-> TRUE, flow_sensor |-> flow, moisture_sensor |-> moisture,
     moisture_threshold |-> DefaultMoistureThreshold,
     last_run |-> NoValue, status |-> "idle", current_flow |-> 0,
     total_water_used |-> 0]

(* faulty variant of RunDuration: test mode is not applied *)
RunDurationUncapped(z, override, test_mode) ==
    IF override # 0 THEN override ELSE z.duration

(* duration = duration_override or zone.duration; test mode: min(duration, 1) *)
RunDuration(z, override, test_mode) ==
    LET d == IF override # 0 THEN override ELSE z.duration
    IN IF test_mode THEN Min(d, 1) ELSE d

(* faulty variant of BegunZone: the status is reset instead of set to running *)
BegunZoneResets(z, t) == [z EXCEPT !.status = "idle", !.last_run = t]

(* faulty variant of BegunZone: the time of the run is not recorded *)
BegunZoneKeepsLastRun(z, t) == [z EXCEPT !.status = "running"]

(* zone.status = "running"; zone.last_run = datetime.now() *)
BegunZone(z, t) == [z EXCEPT !.status = "running", !.last_run = t]

(* faulty variant of FailedZone: the status is left as run_zone set it *)
FailedZoneKeepsStatus(z) == z

(* the else branch of run_zone: the valve did not turn on *)
FailedZone(z) == [z EXCEPT !.status = "failed"]

(* faulty variant of CompletedZone: the status is left for the valve-off
   call to decide, and stays running *)
CompletedZoneUndecided(v, z, water_used) ==
    IF v = "app"
    THEN [z EXCEPT !.current_flow = 0,
                   !.total_water_used = @ + water_used]
    ELSE z

(* lines 518-520 (app), 245 (z2m) *)
CompletedZone(v, z, water_used) ==
    IF v = "app"
    THEN [z EXCEPT !.status = "completed", !.current_flow = 0,
                   !.total_water_used = @ + water_used]
    ELSE [z EXCEPT !.status = "completed"]

-----------------------------------------------------------------------------
(* Home Assistant: valve service calls and sensor states *)

ValveResults == {"ok", "refused", "raised"}   \* 200, other status, exception

NoReading == -1          \* get_sensor_value returned None
ReadRaised == -2         \* get_sensor_value raised (the request failed)

(* get_sensor_value: the entity's state as a number, None when the entity
   has no numeric state, or the request raises *)
GetSensorValue(state) == {state, ReadRaised}

(* "if flow:" holds of every reading but None and 0.0, negative ones too;
   the states of the sensors are taken apart from the two codes above *)
Truthy(reading) == reading # NoReading /\ reading # 0

(* faulty variant of ValveAfter: the service called is always turn_on *)
ValveAfterAlwaysOn(old, state, result) == IF result = "ok" THEN "on" ELSE old

(* the entity after a turn_on/turn_off call with the given result *)
ValveAfter(old, state, result) == IF result = "ok" THEN state ELSE old

-----------------------------------------------------------------------------
(* asyncio tasks *)

TaskIds == 1..MaxTasks

NoTask ==
    [kind |-> "none", pc |-> "", zone |-> "", idx |-> 0,
     cond |-> InitialConditions, override |-> 0, test_mode |-> FALSE,
     duration |-> 0, start |-> 0, wake |-> 0, water_used |-> 0,
     on_ok |-> FALSE, slept |-> FALSE, off_calls |-> 0, off_ok |-> FALSE]

NoRun ==
    [zone |-> "", outcome |-> "none", on_ok |-> FALSE, off_calls |-> 0,
     waited |-> FALSE, status |-> "", water |-> 0, runs |-> 0, task |-> "none",
     slot |-> 0, minutes |-> 0, off_ok |-> FALSE]

(* the record of a run_zone call that ends with `outcome`: the zone's status
   as the call leaves it, and what its last step added to total_water_used
   and total_runs *)
EndedRun(t, tk, outcome, zbefore, zafter, sbefore, safter) ==
    [zone |-> tk.zone, outcome |-> outcome, on_ok |-> tk.on_ok,
     off_calls |-> tk.off_calls, waited |-> tk.slept,
     status |-> zafter.status,
     water |-> zafter.total_water_used - zbefore.total_water_used,
     runs |-> safter.total_runs - sbefore.total_runs, task |-> tk.kind,
     slot |-> t, minutes |-> tk.duration, off_ok |-> tk.off_ok]

Free == {t \in TaskIds : tasks[t].kind = "none"}

InRun(tk) == tk.pc \in {"valve_on", "poll", "sleep", "valve_off"}

(* the runs in progress: run_zone calls that began and have not returned *)
ActiveRuns(z) == {t \in TaskIds : InRun(tasks[t]) /\ tasks[t].zone = z}

Running == main.pc \notin {"dead", "cancelled"}

(* some task or main() can run now: the loop is not idle *)
Urgent ==
    \/ \E t \in TaskIds :
          \/ tasks[t].pc \in {"start", "loop", "valve_on", "poll", "valve_off"}
          \/ tasks[t].pc = "sleep" /\ tasks[t].wake <= now
    \/ main.pc = "sleep" /\ main.wake <= now

(* requests and signals reach the process while its loop is idle, and
   requests at whole multiples of RequestEvery seconds of running time *)
Idle == Running /\ ~Urgent

RequestTime == Idle /\ (now - main.started) % RequestEvery = 0

-----------------------------------------------------------------------------
(* HistoryStore (specification section 4.4; the sources keep no history):
   one entry per day, here today's *)

NoEntry == [present |-> FALSE, waterUsedLiters |-> 0, rainfallMm |-> 0]

ZeroEntry == [present |-> TRUE, waterUsedLiters |-> 0, rainfallMm |-> 0]

(* today's entry, created with zero-initialized fields if absent *)
Entry(h) == IF h.present THEN h ELSE ZeroEntry

WaterAmounts == {25, 50}

RainfallAmounts == {3, 5}

-----------------------------------------------------------------------------
(* The single-shot script src/smart_irrigation/main.py *)

ValveTopics == <<"valve1", "valve2">>     \* cfg['valve_topics']

TopicNames == {ValveTopics[i] : i \in 1..Len(ValveTopics)}

ForecastThresholdPct == 50      \* cfg['forecast_threshold_pct']

RainThresholdMm == 10           \* cfg['rain_threshold_mm']

TargetMinutes == {0, 5, 20}     \* cfg['target_water_minutes']

FetchRaised == -1        \* requests.get or raise_for_status raised

(* what fetch_forecast_pct and fetch_past_rain_mm can give *)
ForecastPcts == {0, 20, 50, 80, FetchRaised}

PastRains == {0, 2, 4, 10, FetchRaised}

(* client.publish: the message is handed to the client, or the call raises
   (ValueError on a topic or payload it rejects) *)
PublishResults == {"sent", "raised"}

(* before the script is started *)
NoCycle ==
    [pc |-> "none", target |-> 0, fc |-> 0, past |-> 0, minutes |-> 0, i |-> 0,
     sent |-> [tp \in TopicNames |-> <<>>]]

-----------------------------------------------------------------------------
(* Initial states *)

Config(provider, fe, ft, sp, re, rt, ce, cr) ==
    [weather_provider |-> provider,
     forecast_enabled |-> fe, forecast_threshold |-> ft, skip_percentage |-> sp,
     recent_enabled |-> re, recent_threshold |-> rt,
     compensation_enabled |-> ce, compensation_ratio |-> cr]

(* the configuration of the scheduler runs *)
SchedConfig == Config("openweathermap", TRUE, 5, 70, TRUE, 10, TRUE, 50)

(* the scheduler runs with a compensation ratio of 0.5 or of 0.8 *)
SchedConfigs == {SchedConfig, [SchedConfig EXCEPT !.compensation_ratio = 80]}

(* configurations of the weather evaluations *)
AllConfigs ==
    {Config(p, fe, ft, sp, re, 10, ce, cr) :
        p \in Providers, fe \in BOOLEAN, ft \in {5, 12}, sp \in {70, 80},
        re \in BOOLEAN, ce \in BOOLEAN, cr \in {0, 50, 80, 100}}

Monday == CHOOSE d \in DayLists : <<"M", "o", "n">> \in d

Tuesday == CHOOSE d \in DayLists : Cardinality(d) = 1 /\ d # Monday

BothDays == CHOOSE d \in DayLists : Cardinality(d) = 2

Sensor(flow, moisture) == [flow |-> flow, moisture |-> moisture]

(* the zones of the configuration file and the states of their sensors:
   front is due on Mondays, for 1 minute with a flow sensor (reading 10, or
   a negative flow of -5) or for 2 minutes without; back is due on Mondays,
   on Mondays and Tuesdays with a moist soil sensor, or on Tuesdays only *)
FrontSetups(v) ==
    IF v = "app"
    THEN {<<NewZone(1, <<5, 0>>, Monday, TRUE, FALSE), Sensor(10, NoReading)>>,
          <<NewZone(1, <<5, 0>>, Monday, TRUE, FALSE), Sensor(-5, NoReading)>>,
          <<NewZone(2, <<5, 0>>, Monday, FALSE, FALSE),
            Sensor(NoReading, NoReading)>>}
    ELSE {<<NewZone(d, <<5, 0>>, Monday, FALSE, FALSE),
            Sensor(NoReading, NoReading)>> : d \in {1, 2}}

BackSetups(v) ==
    {<<NewZone(1, <<5, 0>>, Monday, FALSE, FALSE),
       Sensor(NoReading, NoReading)>>,
     <<NewZone(1, <<5, 0>>, BothDays, FALSE, v = "app"),
       Sensor(NoReading, IF v = "app" THEN 40 ELSE NoReading)>>,
     <<NewZone(1, <<5, 0>>, Tuesday, FALSE, FALSE),
       Sensor(NoReading, NoReading)>>}

(* 04:59:00 and 04:59:30 (app), 04:59:00 and 05:03:30 (z2m) *)
StartTimes(v) == IF v = "app" THEN {17940, 17970} ELSE {17940, 18210}

InitialStats ==
    [total_runs |-> 0, water_saved |-> 0, last_weather_check |-> NoValue,
     weather_skip_count |-> 0]

NoEval == [made |-> FALSE, eval |-> NoEvaluation, forecast |-> ErrorForecast,
           recent |-> ErrorRecent]

InitCommon ==
    /\ variant \in {"app", "z2m"}
    /\ stats = InitialStats
    /\ tasks = [t \in TaskIds |-> NoTask]
    /\ now \in StartTimes(variant)
    /\ main = [pc |-> "sleep", wake |-> now, started |-> now,
               next_run |-> now + JobPeriodZ2M]
    /\ valve = [z \in ZoneNames |-> "off"]
    /\ ended = NoRun
    /\ lastEval = NoEval
    /\ response = [handler |-> "", body |-> ""]
    /\ calls = 0
    /\ history = NoEntry
    /\ historyLog = <<>>
    /\ cycle = NoCycle

Init ==
    /\ InitCommon
    /\ config \in SchedConfigs
    /\ \E f \in FrontSetups(variant), b \in BackSetups(variant) :
          /\ zones = [z \in ZoneNames |-> IF z = "front" THEN f[1] ELSE b[1]]
          /\ sensors = [z \in ZoneNames |-> IF z = "front" THEN f[2] ELSE b[2]]

-----------------------------------------------------------------------------
(* The weather evaluation as one step *)

StatsAfterCheck(v, st, e, t) ==
    IF v = "app"
    THEN [st EXCEPT !.last_weather_check = t,
                    !.weather_skip_count = @ + e.skips]
    ELSE st

(* faulty variant of Checked: a skip is written to the zones' status *)
CheckedMarksZones(fc, rc) ==
    LET e == CheckWeather(variant, config, fc, rc)
    IN /\ lastEval' = [made |-> TRUE, eval |-> e, forecast |-> fc,
                       recent |-> rc]
       /\ stats' = StatsAfterCheck(variant, stats, e, now)
       /\ zones' = IF e.conditions.skip_irrigation
                   THEN [z \in ZoneNames |->
                            [zones[z] EXCEPT !.status = "completed"]]
                   ELSE zones

(* await self.check_weather_conditions() with the query results fc and rc:
   it writes conditions and stats, and no zone *)
Checked(fc, rc) ==
    LET e == CheckWeather(variant, config, fc, rc)
    IN /\ lastEval' = [made |-> TRUE, eval |-> e, forecast |-> fc,
                       recent |-> rc]
       /\ stats' = StatsAfterCheck(variant, stats, e, now)
       /\ zones' = zones

(* GET /api/weather_check (app) *)
api_weather_check ==
    /\ variant = "app" /\ calls < MaxCalls
    /\ \E fc \in GetForecast(variant, config.weather_provider),
          rc \in GetRecentRain(variant, config.weather_provider) :
          /\ Checked(fc, rc)
          /\ response' = [handler |-> "weather_check", body |-> "conditions"]
    /\ calls' = calls + 1
    /\ UNCHANGED <<cycle, history, historyLog, variant, sensors, config, tasks, main,
                   now, valve, ended>>

-----------------------------------------------------------------------------
(* Ends of tasks *)

(* main() after the tick it awaits has returned or raised (app); the z2m
   main loop does not await its tick tasks *)
MainAfter(tk, how) ==
    IF variant = "app" /\ tk.kind = "tick"
    THEN IF how = "return"
         THEN [main EXCEPT !.pc = "sleep", !.wake = now + TickSleepApp]
         ELSE [main EXCEPT !.pc = "dead"]
    ELSE main

(* faulty variant of AfterRun: the pass goes on without its weather
   conditions *)
AfterRunForgets(tk) ==
    IF tk.kind = "tick"
    THEN [NoTask EXCEPT !.kind = "tick", !.pc = "loop", !.idx = tk.idx + 1]
    ELSE NoTask

(* the task after its run_zone call has returned *)
AfterRun(tk) ==
    IF tk.kind = "tick"
    THEN [NoTask EXCEPT !.kind = "tick", !.pc = "loop", !.idx = tk.idx + 1,
                        !.cond = tk.cond]
    ELSE NoTask

(* the task ends: it returns, or an exception leaves it *)
Finish(t, how) ==
    /\ tasks' = [tasks EXCEPT ![t] = NoTask]
    /\ main' = MainAfter(tasks[t], how)

-----------------------------------------------------------------------------
(* main() *)

(* app: while True: await process_scheduled_irrigation(); await sleep(60) *)
MainLoopApp ==
    /\ variant = "app" /\ main.pc = "sleep" /\ now >= main.wake
    /\ Free # {}
    /\ LET t == CHOOSE x \in Free : \A y \in Free : x <= y
       IN tasks' = [tasks EXCEPT ![t] =
                       [NoTask EXCEPT !.kind = "tick", !.pc = "start"]]
    /\ main' = [main EXCEPT !.pc = "in_tick"]
    /\ UNCHANGED <<cycle, history, historyLog, variant, sensors, config, zones,
                   stats, now, valve, ended, lastEval, response, calls>>

(* z2m: while True: schedule.run_pending(); await sleep(30); the job due
   every minute creates a task for process_scheduled_irrigation *)
MainLoopZ2M ==
    /\ variant = "z2m" /\ main.pc = "sleep" /\ now >= main.wake
    /\ IF now >= main.next_run
       THEN /\ Free # {}
            /\ LET t == CHOOSE x \in Free : \A y \in Free : x <= y
               IN tasks' = [tasks EXCEPT ![t] =
                               [NoTask EXCEPT !.kind = "tick", !.pc = "start"]]
            /\ main' = [main EXCEPT !.wake = now + MainSleepZ2M,
                                    !.next_run = now + JobPeriodZ2M]
       ELSE /\ tasks' = tasks
            /\ main' = [main EXCEPT !.wake = now + MainSleepZ2M]
    /\ UNCHANGED <<cycle, history, historyLog, variant, sensors, config, zones,
                   stats, now, valve, ended, lastEval, response, calls>>

-----------------------------------------------------------------------------
(* process_scheduled_irrigation *)

(* faulty variant of TotalDuration: only the first zone is counted *)
TotalDurationOfFirst(i) ==
    LET z == zones[ZoneOrder[1]]
    IN IF z.enabled = TRUE /\ ShouldRunToday(variant, z) THEN z.duration ELSE 0

(* sum(z.duration for z in self.zones if z.enabled and z.should_run_today()) *)
RECURSIVE TotalDuration(_)
TotalDuration(i) ==
    IF i > Len(ZoneOrder) THEN 0
    ELSE LET z == zones[ZoneOrder[i]]
         IN (IF z.enabled = TRUE /\ ShouldRunToday(variant, z)
             THEN z.duration ELSE 0) + TotalDuration(i + 1)

(* what the for loop reads of weather_conditions *)
Applied(c) ==
    [InitialConditions EXCEPT !.reduce_duration = c.reduce_duration,
                              !.reduction_factor = c.reduction_factor]

(* the pass starts: the weather check, and the return when it skips *)
TickStart(t) ==
    /\ Running /\ tasks[t].kind = "tick" /\ tasks[t].pc = "start"
    /\ \E fc \in GetForecast(variant, config.weather_provider),
          rc \in GetRecentRain(variant, config.weather_provider) :
          LET e == CheckWeather(variant, config, fc, rc)
              st == StatsAfterCheck(variant, stats, e, now)
          IN /\ IF e.aborted
                THEN /\ Finish(t, "raise")
                     /\ stats' = st
                ELSE IF e.conditions.skip_irrigation
                THEN /\ Finish(t, "return")
                     /\ stats' =
                          IF variant = "app"
                          THEN [st EXCEPT !.water_saved =
                                   @ + TotalDuration(1) * SavedPerMinute]
                          ELSE st
                ELSE /\ tasks' = [tasks EXCEPT ![t].pc = "loop", ![t].idx = 1,
                                               ![t].cond =
                                                   Applied(e.conditions)]
                     /\ main' = main
                     /\ stats' = st
    /\ UNCHANGED <<cycle, history, historyLog, variant, sensors, config, zones, now,
                   valve, ended, lastEval, response, calls>>

(* the first zone at or after position i that the pass selects now *)
RECURSIVE NextMatch(_)
NextMatch(i) ==
    IF i > Len(ZoneOrder) THEN i
    ELSE IF Matches(variant, zones[ZoneOrder[i]], now) THEN i
    ELSE NextMatch(i + 1)

(* int(duration * reduction_factor) *)
Reduced(duration, factor) == (duration * factor.num) \div factor.den

(* faulty variant of TickDuration: the reduction is not applied *)
TickDurationUnreduced(z, cond) == z.duration

(* the duration the pass hands to run_zone *)
TickDuration(z, cond) ==
    IF cond.reduce_duration THEN Reduced(z.duration, cond.reduction_factor)
    ELSE z.duration

(* check_zone_sensors: skip when the soil is moist enough *)
SensorSkip(z, m) ==
    m # NoReading /\ m # ReadRaised /\ m >= z.moisture_threshold

(* the for loop runs on to the next matching zone, checks its sensors and
   enters run_zone, up to the await of the valve call *)
TickLoop(t) ==
    /\ tasks[t].kind = "tick" /\ tasks[t].pc = "loop"
    /\ LET j == NextMatch(tasks[t].idx)
       IN IF j > Len(ZoneOrder)
          THEN /\ Finish(t, "return")
               /\ UNCHANGED <<zones, stats, ended>>
          ELSE LET zn == ZoneOrder[j]
                   z == zones[zn]
               IN \E m \in IF variant = "app" /\ z.moisture_sensor
                           THEN GetSensorValue(sensors[zn].moisture)
                           ELSE {NoReading},
                     f \in IF variant = "app" /\ z.flow_sensor
                           THEN GetSensorValue(sensors[zn].flow)
                           ELSE {NoReading} :
                     LET zf == IF f \in {NoReading, ReadRaised} THEN z
                               ELSE [z EXCEPT !.current_flow = f]
                         d == TickDuration(z, tasks[t].cond)
                     IN IF m = ReadRaised
                        THEN /\ Finish(t, "raise")
                             /\ UNCHANGED <<zones, stats, ended>>
                        ELSE IF f = ReadRaised
                        THEN /\ Finish(t, "raise")
                             /\ UNCHANGED <<zones, stats, ended>>
                        ELSE IF SensorSkip(z, m)
                        THEN /\ tasks' = [tasks EXCEPT ![t].idx = j + 1]
                             /\ zones' = [zones EXCEPT ![zn] = zf]
                             /\ stats' = [stats EXCEPT !.water_saved =
                                            @ + z.duration * SavedPerMinute]
                             /\ UNCHANGED <<main, ended>>
                        ELSE /\ tasks' = [tasks EXCEPT ![t] =
                                  [@ EXCEPT !.pc = "valve_on", !.idx = j,
                                            !.zone = zn, !.override = d,
                                            !.duration =
                                                RunDuration(z, d, FALSE)]]
                             /\ zones' = [zones EXCEPT ![zn] =
                                             BegunZone(zf, now)]
                             /\ stats' =
                                  IF variant = "app"
                                     /\ tasks[t].cond.reduce_duration
                                  THEN [stats EXCEPT !.water_saved =
                                          @ + (z.duration - d) * SavedPerMinute]
                                  ELSE stats
                             /\ UNCHANGED <<main, ended>>
    /\ UNCHANGED <<cycle, history, historyLog, variant, sensors, config, now, valve,
                   lastEval, response, calls>>

-----------------------------------------------------------------------------
(* run_zone *)

(* a task created by api_run_zone starts: run_zone up to the valve call *)
RunBegin(t) ==
    /\ Running /\ tasks[t].kind = "manual" /\ tasks[t].pc = "start"
    /\ LET zn == tasks[t].zone
       IN /\ tasks' = [tasks EXCEPT ![t].pc = "valve_on",
                          ![t].duration = RunDuration(zones[zn],
                                tasks[t].override, tasks[t].test_mode)]
          /\ zones' = [zones EXCEPT ![zn] = BegunZone(@, now)]
    /\ UNCHANGED <<cycle, history, historyLog, variant, sensors, config, stats, main,
                   now, valve, ended, lastEval, response, calls>>

(* an exception leaves run_zone: nothing after the raising await runs *)
RunRaises(t, tk) ==
    /\ UNCHANGED <<zones, stats>>
    /\ ended' = EndedRun(t, tk, "error", zones[tk.zone], zones'[tk.zone],
                         stats, stats')
    /\ Finish(t, "raise")

(* await self.control_valve(zone.entity_id, "on") returns *)
ValveOnReturn(t) ==
    /\ tasks[t].pc = "valve_on"
    /\ LET tk == tasks[t]
           zn == tk.zone
       IN \E r \in ValveResults :
             /\ valve' = [valve EXCEPT ![zn] = ValveAfter(@, "on", r)]
             /\ CASE r = "ok" ->
                       /\ tasks' = [tasks EXCEPT ![t] =
                             [tk EXCEPT !.on_ok = TRUE, !.start = now,
                                        !.water_used = 0,
                                        !.slept = (variant # "app"),
                                        !.pc = IF variant = "app" THEN "poll"
                                               ELSE "sleep",
                                        !.wake = now + tk.duration
                                                       * SecondsPerMinute]]
                       /\ UNCHANGED <<zones, stats, main, ended>>
                  [] r = "refused" ->
                       /\ zones' = [zones EXCEPT ![zn] = FailedZone(@)]
                       /\ stats' = stats
                       /\ ended' = EndedRun(t, tk, "failed", zones[zn],
                                            zones'[zn], stats, stats')
                       /\ IF tk.kind = "tick"
                          THEN tasks' = [tasks EXCEPT ![t] = AfterRun(tk)]
                               /\ main' = main
                          ELSE Finish(t, "return")
                  [] r = "raised" -> RunRaises(t, tk)
    /\ UNCHANGED <<cycle, history, historyLog, variant, sensors, config, now,
                   lastEval, response, calls>>

(* the number of passes of the wait loop: sleeps of 6 s until duration * 60
   seconds have gone by *)
Passes(duration) ==
    (duration * SecondsPerMinute + PollSleep - 1) \div PollSleep

(* when the pass that starts now ends its sleep; without a flow sensor a
   pass only sleeps, and the remaining passes are taken as one sleep *)
PassEnd(z, tk) ==
    IF z.flow_sensor THEN now + PollSleep
    ELSE Max(now + PollSleep, tk.start + PollSleep * Passes(tk.duration))

(* app: one pass of the wait loop, lines 507-514 *)
Poll(t) ==
    /\ variant = "app" /\ tasks[t].pc = "poll"
    /\ LET tk == tasks[t]
           zn == tk.zone
       IN IF now - tk.start < tk.duration * SecondsPerMinute
          THEN \E f \in IF zones[zn].flow_sensor
                        THEN GetSensorValue(sensors[zn].flow)
                        ELSE {NoReading} :
                  IF f = ReadRaised
                  THEN RunRaises(t, tk)
                  ELSE /\ tasks' = [tasks EXCEPT ![t] =
                             [tk EXCEPT !.pc = "sleep", !.slept = TRUE,
                                        !.wake = PassEnd(zones[zn], tk),
                                        !.water_used =
                                            IF Truthy(f) THEN @ + f ELSE @]]
                       /\ zones' = IF Truthy(f)
                                   THEN [zones EXCEPT ![zn].current_flow = f]
                                   ELSE zones
                       /\ UNCHANGED <<stats, main, ended>>
          ELSE /\ tasks' = [tasks EXCEPT ![t].pc = "valve_off"]
               /\ UNCHANGED <<zones, stats, main, ended>>
    /\ UNCHANGED <<cycle, history, historyLog, variant, sensors, config, now, valve,
                   lastEval, response, calls>>

(* asyncio.sleep returns *)
Wake(t) ==
    /\ Running /\ tasks[t].pc = "sleep" /\ now >= tasks[t].wake
    /\ tasks' = [tasks EXCEPT ![t].pc =
                    IF variant = "app" THEN "poll" ELSE "valve_off"]
    /\ UNCHANGED <<cycle, history, historyLog, variant, sensors, config, zones,
                   stats, main, now, valve, ended, lastEval, response, calls>>

StatsAfterRun(v, st) ==
    IF v = "app" THEN [st EXCEPT !.total_runs = @ + 1] ELSE st

(* await self.control_valve(zone.entity_id, "off") returns, and the rest *)
ValveOffReturn(t) ==
    /\ tasks[t].pc = "valve_off"
    /\ \E r \in ValveResults :
          LET tk == [tasks[t] EXCEPT !.off_calls = @ + 1,
                                     !.off_ok = (r = "ok")]
              zn == tk.zone
              w == IF variant = "app" THEN tk.water_used ELSE 0
          IN /\ valve' = [valve EXCEPT ![zn] = ValveAfter(@, "off", r)]
             /\ IF r = "raised"
                THEN RunRaises(t, tk)
                ELSE /\ zones' = [zones EXCEPT ![zn] =
                                     CompletedZone(variant, @, w)]
                     /\ stats' = StatsAfterRun(variant, stats)
                     /\ ended' = EndedRun(t, tk, "completed", zones[zn],
                                          zones'[zn], stats, stats')
                     /\ IF tk.kind = "tick"
                        THEN tasks' = [tasks EXCEPT ![t] = AfterRun(tk)]
                             /\ main' = main
                        ELSE Finish(t, "return")
    /\ UNCHANGED <<cycle, history, historyLog, variant, sensors, config, now,
                   lastEval, response, calls>>

-----------------------------------------------------------------------------
(* Cancellation: asyncio.run tears the loop down (SIGINT) and every task
   gets CancelledError at the await it is suspended in *)

Shutdown ==
    /\ Idle
    /\ \E t \in TaskIds : tasks[t].kind # "none"
    /\ main' = [main EXCEPT !.pc = "cancelled"]
    /\ UNCHANGED <<cycle, history, historyLog, variant, sensors, config, zones,
                   stats, tasks, now, valve, ended, lastEval, response,
                   calls>>

Cancel(t) ==
    /\ main.pc = "cancelled" /\ tasks[t].kind # "none"
    /\ tasks[t].pc \in {"start", "valve_on", "sleep", "valve_off"}
    /\ tasks' = [tasks EXCEPT ![t] = NoTask]
    /\ ended' = IF InRun(tasks[t])
                THEN EndedRun(t, tasks[t], "cancelled",
                              zones[tasks[t].zone], zones[tasks[t].zone],
                              stats, stats)
                ELSE ended
    /\ UNCHANGED <<cycle, history, historyLog, variant, sensors, config, zones,
                   stats, main, now, valve, lastEval, response, calls>>

-----------------------------------------------------------------------------
(* Flask handlers *)

Overrides == {0, 2}      \* data.get('duration'): None (as 0) or minutes

Answer(handler, body) == [handler |-> handler, body |-> body]

(* POST /api/run_zone.  asyncio.create_task needs the running loop of the
   calling thread: the task is created, or RuntimeError leaves the handler.
   The z2m handler does not read test_mode. *)
api_run_zone(zone_name, duration, test_mode) ==
    /\ RequestTime /\ calls < MaxCalls
    /\ calls' = calls + 1
    /\ IF zone_name \in ZoneNames
       THEN \/ /\ Free # {}
               /\ LET t == CHOOSE x \in Free : \A y \in Free : x <= y
                  IN tasks' = [tasks EXCEPT ![t] =
                        [NoTask EXCEPT !.kind = "manual", !.pc = "start",
                                       !.zone = zone_name,
                                       !.override = duration,
                                       !.test_mode =
                                           (variant = "app" /\ test_mode)]]
               /\ response' = Answer("run_zone", "success")
            \/ /\ tasks' = tasks
               /\ response' = Answer("run_zone", "RuntimeError")
       ELSE /\ tasks' = tasks
            /\ response' = Answer("run_zone", "Zone not found")
    /\ UNCHANGED <<cycle, history, historyLog, variant, sensors, config, zones,
                   stats, main, now, valve, ended, lastEval>>

(* a handler that writes the setting to every zone when the name is not
   found *)
api_toggle_zoneAnyName(zone_name, enabled) ==
    /\ variant = "app" /\ RequestTime /\ calls < MaxCalls
    /\ calls' = calls + 1
    /\ IF zone_name \in ZoneNames
       THEN /\ zones' = [zones EXCEPT ![zone_name].enabled = enabled]
            /\ response' = Answer("toggle_zone", "success")
       ELSE /\ zones' = [z \in ZoneNames |->
                            [zones[z] EXCEPT !.enabled = enabled]]
            /\ response' = Answer("toggle_zone", "Zone not found")
    /\ UNCHANGED <<cycle, history, historyLog, variant, sensors, config, stats,
                   tasks, main, now, valve, ended, lastEval>>

(* POST /api/toggle_zone (app) *)
api_toggle_zone(zone_name, enabled) ==
    /\ variant = "app" /\ RequestTime /\ calls < MaxCalls
    /\ calls' = calls + 1
    /\ IF zone_name \in ZoneNames
       THEN /\ zones' = [zones EXCEPT ![zone_name].enabled = enabled]
            /\ response' = Answer("toggle_zone", "success")
       ELSE /\ zones' = zones
            /\ response' = Answer("toggle_zone", "Zone not found")
    /\ UNCHANGED <<cycle, history, historyLog, variant, sensors, config, stats,
                   tasks, main, now, valve, ended, lastEval>>

(* the settings a request to /api/update_zone carries: one key each *)
UpdateKeys == {"duration", "schedule", "days", "moisture_threshold"}

(* the zone after "if key in data: zone.key = data[key]" *)
UpdatedZone(z, key) ==
    CASE key = "duration" -> [z EXCEPT !.duration = 1]
      [] key = "schedule" -> [z EXCEPT !.schedule = <<5, 1>>]
      [] key = "days" -> [z EXCEPT !.days = Tuesday]
      [] key = "moisture_threshold" -> [z EXCEPT !.moisture_threshold = 50]

(* POST /api/update_zone (app) *)
api_update_zone(zone_name, key) ==
    /\ variant = "app" /\ RequestTime /\ calls < MaxCalls
    /\ calls' = calls + 1
    /\ IF zone_name \in ZoneNames
       THEN /\ zones' = [zones EXCEPT ![zone_name] = UpdatedZone(@, key)]
            /\ response' = Answer("update_zone", "success")
       ELSE /\ zones' = zones
            /\ response' = Answer("update_zone", "Zone not found")
    /\ UNCHANGED <<cycle, history, historyLog, variant, sensors, config, stats,
                   tasks, main, now, valve, ended, lastEval>>

-----------------------------------------------------------------------------
(* stopZone of the scheduler interface (specification section 4.2; the
   sources have no stop operation).  A zone in the active-run registry has
   its runner cancelled: the runner leaves the wait, calls the valve off
   once, the zone becomes stopped with no water credited, and the run leaves
   the registry before Stopped is returned.  Otherwise NotRunning. *)

StoppedZone(z) == [z EXCEPT !.status = "stopped", !.current_flow = 0]

(* faulty variant of stopZone: the zone is marked stopped whether or not it
   has a run *)
stopZoneMarksAlways(zone_name) ==
    /\ RequestTime /\ calls < MaxStops /\ zone_name \in ZoneNames
    /\ calls' = calls + 1
    /\ ActiveRuns(zone_name) = {}
    /\ response' = Answer("stopZone", "NotRunning")
    /\ zones' = [zones EXCEPT ![zone_name] = StoppedZone(@)]
    /\ UNCHANGED <<cycle, history, historyLog, variant, sensors, config, stats,
                   tasks, main, now, valve, ended, lastEval>>

stopZone(zone_name) ==
    /\ RequestTime /\ calls < MaxStops /\ zone_name \in ZoneNames
    /\ calls' = calls + 1
    /\ IF ActiveRuns(zone_name) # {}
       THEN LET t == CHOOSE x \in ActiveRuns(zone_name) : TRUE
                tk == [tasks[t] EXCEPT !.off_calls = @ + 1]
            IN \E r \in {"ok", "refused"} :
                  /\ valve' = [valve EXCEPT ![zone_name] =
                                   ValveAfter(@, "off", r)]
                  /\ zones' = [zones EXCEPT ![zone_name] = StoppedZone(@)]
                  /\ tasks' = [tasks EXCEPT ![t] = AfterRun(tk)]
                  /\ ended' = EndedRun(t, tk, "stopped", zones[zone_name],
                                       zones'[zone_name], stats, stats)
                  /\ response' = Answer("stopZone", "Stopped")
       ELSE /\ response' = Answer("stopZone", "NotRunning")
            /\ UNCHANGED <<zones, tasks, valve, ended>>
    /\ UNCHANGED <<cycle, history, historyLog, variant, sensors, config, stats, main,
                   now, lastEval>>

-----------------------------------------------------------------------------
(* Time *)

Deadlines ==
    (IF main.pc = "sleep" THEN {main.wake} ELSE {})
    \cup {tasks[t].wake : t \in {x \in TaskIds : tasks[x].pc = "sleep"}}

(* the clock runs on to the next wake-up *)
Advance ==
    /\ Idle
    /\ Deadlines # {}
    /\ LET next == CHOOSE d \in Deadlines : \A e \in Deadlines : d <= e
       IN /\ next > now /\ next - main.started <= MaxElapsed
          /\ now' = next
    /\ ended' = NoRun
    /\ UNCHANGED <<cycle, history, historyLog, variant, sensors, config, zones,
                   stats, tasks, main, valve, lastEval, response, calls>>

-----------------------------------------------------------------------------
(* Specifications *)

(* the steps of the program without requests: main(), the passes, their
   runs, the teardown and the clock *)
Steps ==
    \/ MainLoopApp
    \/ MainLoopZ2M
    \/ \E t \in TaskIds : TickStart(t)
    \/ \E t \in TaskIds : TickLoop(t)
    \/ \E t \in TaskIds : ValveOnReturn(t)
    \/ \E t \in TaskIds : Poll(t)
    \/ \E t \in TaskIds : Wake(t)
    \/ \E t \in TaskIds : ValveOffReturn(t)
    \/ Shutdown
    \/ \E t \in TaskIds : Cancel(t)
    \/ Advance

Next ==
    \/ Steps
    \/ \E t \in TaskIds : RunBegin(t)
    \/ \E zn \in ZoneNames \cup {UnknownZone}, d \in Overrides,
          tm \in BOOLEAN : api_run_zone(zn, d, tm)
    \/ \E zn \in ZoneNames \cup {UnknownZone}, en \in BOOLEAN :
          api_toggle_zone(zn, en)
    \/ \E zn \in ZoneNames \cup {UnknownZone}, key \in UpdateKeys :
          api_update_zone(zn, key)

Spec == Init /\ [][Next]_vars

(* The single-shot script, step by step *)

(* lines 6-21: the options are loaded and the client connects *)
LoadOptions ==
    /\ cycle.pc = "none"
    /\ \E target \in TargetMinutes :
          cycle' = [cycle EXCEPT !.pc = "forecast", !.target = target]
    /\ UNCHANGED <<variant, config, zones, stats, tasks, main, now, valve,
                   sensors, ended, lastEval, response, calls, history,
                   historyLog>>

(* lines 57-61 *)
FetchForecast ==
    /\ cycle.pc = "forecast"
    /\ \E fc \in ForecastPcts :
          cycle' = IF fc = FetchRaised
                   THEN [cycle EXCEPT !.pc = "failed"]
                   ELSE [cycle EXCEPT !.fc = fc,
                            !.pc = IF fc >= ForecastThresholdPct
                                   THEN "skipped" ELSE "past"]
    /\ UNCHANGED <<variant, config, zones, stats, tasks, main, now, valve,
                   sensors, ended, lastEval, response, calls, history,
                   historyLog>>

(* max(1, round(target * (1 - past / target))): the division raises when
   target is 0 *)
CycleMinutes(target, past) == Max(1, target - past)

(* lines 63-71 *)
FetchPastRain ==
    /\ cycle.pc = "past"
    /\ \E past \in PastRains :
          cycle' = IF past = FetchRaised
                   THEN [cycle EXCEPT !.pc = "failed"]
                   ELSE IF past >= RainThresholdMm
                   THEN [cycle EXCEPT !.past = past, !.pc = "skipped"]
                   ELSE IF cycle.target = 0
                   THEN [cycle EXCEPT !.past = past, !.pc = "failed"]
                   ELSE [cycle EXCEPT !.past = past, !.pc = "on", !.i = 1,
                            !.minutes = CycleMinutes(cycle.target, past)]
    /\ UNCHANGED <<variant, config, zones, stats, tasks, main, now, valve,
                   sensors, ended, lastEval, response, calls, history,
                   historyLog>>

(* one client.publish of a loop of water_cycle: an exception leaves
   water_cycle and is logged by main *)
Published(command, after) ==
    \E r \in PublishResults :
        cycle' = IF r = "raised"
                 THEN [cycle EXCEPT !.pc = "failed"]
                 ELSE [cycle EXCEPT
                          !.sent[ValveTopics[cycle.i]] = Append(@, command),
                          !.i = IF cycle.i < Len(ValveTopics)
                                THEN cycle.i + 1 ELSE 1,
                          !.pc = IF cycle.i < Len(ValveTopics)
                                 THEN cycle.pc ELSE after]

(* lines 47-48 *)
PublishOn ==
    /\ cycle.pc = "on"
    /\ Published("ON", "sleep")
    /\ UNCHANGED <<variant, config, zones, stats, tasks, main, now, valve,
                   sensors, ended, lastEval, response, calls, history,
                   historyLog>>

(* line 50: time.sleep(secs) returns *)
SleepReturns ==
    /\ cycle.pc = "sleep"
    /\ cycle' = [cycle EXCEPT !.pc = "off"]
    /\ UNCHANGED <<variant, config, zones, stats, tasks, main, now, valve,
                   sensors, ended, lastEval, response, calls, history,
                   historyLog>>

(* the process is interrupted in time.sleep: KeyboardInterrupt is not an
   Exception and leaves main *)
Interrupted ==
    /\ cycle.pc = "sleep"
    /\ cycle' = [cycle EXCEPT !.pc = "interrupted"]
    /\ UNCHANGED <<variant, config, zones, stats, tasks, main, now, valve,
                   sensors, ended, lastEval, response, calls, history,
                   historyLog>>

(* lines 51-53 *)
PublishOff ==
    /\ cycle.pc = "off"
    /\ Published("OFF", "done")
    /\ UNCHANGED <<variant, config, zones, stats, tasks, main, now, valve,
                   sensors, ended, lastEval, response, calls, history,
                   historyLog>>

NextCycle ==
    \/ LoadOptions
    \/ FetchForecast
    \/ FetchPastRain
    \/ PublishOn
    \/ SleepReturns
    \/ Interrupted
    \/ PublishOff

InitCycle ==
    /\ InitCommon
    /\ variant = "app" /\ now = 17940
    /\ config = SchedConfig
    /\ zones = [z \in ZoneNames |-> NewZone(1, <<5, 0>>, Monday, FALSE, FALSE)]
    /\ sensors = [z \in ZoneNames |-> Sensor(NoReading, NoReading)]

SpecCycle == InitCycle /\ [][NextCycle]_vars

(* the history store alone.  Its calls are serialized (section 5), so each
   is one step. *)
addWater(amountLiters) ==
    /\ Len(historyLog) < MaxHistoryCalls
    /\ history' = [Entry(history) EXCEPT !.waterUsedLiters = @ + amountLiters]
    /\ historyLog' = Append(historyLog, <<"addWater", amountLiters>>)
    /\ UNCHANGED <<cycle, variant, config, zones, stats, tasks, main, now,
                   valve, sensors, ended, lastEval, response, calls>>

(* faulty variant of setRainfall: the reading is added to the day's value *)
setRainfallAdds(amountMm) ==
    /\ Len(historyLog) < MaxHistoryCalls
    /\ history' = [Entry(history) EXCEPT !.rainfallMm = @ + amountMm]
    /\ historyLog' = Append(historyLog, <<"setRainfall", amountMm>>)
    /\ UNCHANGED <<cycle, variant, config, zones, stats, tasks, main, now,
                   valve, sensors, ended, lastEval, response, calls>>

setRainfall(amountMm) ==
    /\ Len(historyLog) < MaxHistoryCalls
    /\ history' = [Entry(history) EXCEPT !.rainfallMm = amountMm]
    /\ historyLog' = Append(historyLog, <<"setRainfall", amountMm>>)
    /\ UNCHANGED <<cycle, variant, config, zones, stats, tasks, main, now,
                   valve, sensors, ended, lastEval, response, calls>>

NextHistory ==
    \/ \E a \in WaterAmounts : addWater(a)
    \/ \E a \in RainfallAmounts : setRainfall(a)

SpecHistory == Init /\ [][NextHistory]_vars

(* the program with stopZone calls as its only requests *)
NextStop == Steps \/ \E zn \in ZoneNames : stopZone(zn)

SpecStop == Init /\ [][NextStop]_vars

(* the weather rules alone, over every configuration *)
InitWeather ==
    /\ InitCommon
    /\ now = 17940
    /\ config \in AllConfigs
    /\ zones = [z \in ZoneNames |-> NewZone(1, <<5, 0>>, Monday, FALSE, FALSE)]
    /\ sensors = [z \in ZoneNames |-> Sensor(NoReading, NoReading)]

(* z2m: weather_conditions = await self.check_weather_conditions() *)
check_weather_conditions ==
    /\ variant = "z2m"
    /\ \E fc \in GetForecast(variant, config.weather_provider),
          rc \in GetRecentRain(variant, config.weather_provider) :
          Checked(fc, rc)
    /\ UNCHANGED <<cycle, history, historyLog, variant, sensors, config, tasks, main,
                   now, valve, ended, response, calls>>

NextWeather == api_weather_check \/ check_weather_conditions

SpecWeather == InitWeather /\ [][NextWeather]_vars

-----------------------------------------------------------------------------
(* Properties of the runs (under Spec) *)

(* C1: at every instant a zone has at most one run in progress: a start
   (scheduled tick or api_run_zone) for a zone that is already running does
   not begin a second run. *)
C1_OneActiveRunPerZone ==
    \A z \in ZoneNames : Cardinality(ActiveRuns(z)) <= 1

(* C2: every run_zone call whose valve-on call succeeded has made exactly
   one valve-off call when it ends, whether it completes, is cancelled in
   its wait or is left by an exception. *)
C2_ValveOffExactlyOnce ==
    (ended.outcome # "none" /\ ended.on_ok) => ended.off_calls = 1

(* the status edges of the statement, and the edges run_zone takes *)
StatedEdges ==
    {<<"idle", "running">>, <<"running", "completed">>,
     <<"running", "stopped">>, <<"running", "failed">>}

RestartEdges == {<<"completed", "running">>, <<"failed", "running">>}

OverlapEdges == {<<"completed", "failed">>, <<"failed", "completed">>}

TakenEdges ==
    (StatedEdges \ {<<"running", "stopped">>}) \cup RestartEdges
        \cup OverlapEdges

StatusChangesWithin(edges) ==
    \A z \in ZoneNames :
        zones'[z].status # zones[z].status
            => <<zones[z].status, zones'[z].status>> \in edges

(* C3 as stated: a zone's status changes only along idle->running,
   running->completed, running->stopped and running->failed. *)
C3_StatedEdgesOnly == [][StatusChangesWithin(StatedEdges)]_vars

(* C3, amended: a zone's status changes only along idle->running,
   completed->running and failed->running (a zone that ran before is run
   again), running->completed and running->failed, and completed->failed or
   failed->completed where two runs of one zone overlap; there is no edge to
   stopped and none back to idle. *)
C3_StatusEdges == [][StatusChangesWithin(TakenEdges)]_vars

(* a zone that completed a run is running again: the edge
   completed->running has been taken at this instant *)
C3_Restarted ==
    /\ ended.outcome = "completed"
    /\ zones[ended.zone].status = "running"

(* C4: a zone's status is running if and only if a run of the zone is in
   progress. *)
C4_RunningIffActive ==
    \A z \in ZoneNames : (zones[z].status = "running") <=> (ActiveRuns(z) # {})

(* C5: a run cancelled in its duration wait leaves the zone's status stopped
   and its total_water_used unchanged. *)
C5_CancelledIsStopped ==
    (ended.outcome = "cancelled" /\ ended.waited)
        => (ended.status = "stopped" /\ ended.water = 0)

(* C6: when the valve-on call reports failure, run_zone ends with the zone's
   status failed, the call is no longer a run in progress, no wait happened,
   and neither total_water_used nor total_runs changed. *)
C6_ValveOnFailure ==
    [][(ended' # ended /\ ended'.outcome = "failed")
         => /\ ended'.status = "failed"
            /\ zones'[ended'.zone].status = "failed"
            /\ ~(InRun(tasks'[ended'.slot])
                   /\ tasks'[ended'.slot].zone = ended'.zone)
            /\ ~ended'.waited /\ ~ended'.on_ok
            /\ ended'.water = 0 /\ ended'.runs = 0
            /\ stats'.total_runs = stats.total_runs
            /\ zones'[ended'.zone].total_water_used
                 = zones[ended'.zone].total_water_used]_vars

(* a run_zone call has just ended on a refused valve-on call *)
C6_Failed ==
    /\ ended.outcome = "failed"
    /\ zones[ended.zone].status = "failed"
    /\ valve[ended.zone] = "off"

-----------------------------------------------------------------------------
(* Properties of the weather evaluation (under SpecWeather) *)

ZeroRain == [status |-> "success", rain_mm |-> 0, rain_chance |-> 0]

OrZero(q) == IF q.status = "success" THEN q ELSE ZeroRain

(* what the schedule reads of an evaluation *)
Decision(e) ==
    <<e.conditions.skip_irrigation, e.conditions.reduce_duration,
      e.conditions.reduction_factor>>

(* the forecast query was made, succeeded, and the rain chance is below the
   skip percentage while the rain amount is at or over the threshold *)
ForecastRainOver ==
    /\ lastEval.made /\ config.forecast_enabled
    /\ lastEval.forecast.status = "success"
    /\ lastEval.forecast.rain_chance < config.skip_percentage
    /\ lastEval.forecast.rain_mm >= config.forecast_threshold

(* one of the two forecast rules of the statement applies *)
ForecastRuleSkips ==
    /\ config.forecast_enabled
    /\ lastEval.forecast.status = "success"
    /\ \/ lastEval.forecast.rain_chance >= config.skip_percentage
       \/ lastEval.forecast.rain_mm >= config.forecast_threshold

(* C7: a failed weather query counts as no rain and no rain chance: the
   evaluation is not aborted, and its decision is the one it makes when the
   failed query is replaced by a successful query of zero rain. *)
C7_FailedQueryCountsAsZero ==
    lastEval.made
        => /\ ~lastEval.eval.aborted
           /\ Decision(lastEval.eval)
                = Decision(CheckWeather(variant, config,
                                        OrZero(lastEval.forecast),
                                        OrZero(lastEval.recent)))

(* C8: when the forecast query succeeds with a rain chance at or over
   skip_percentage, the evaluation skips, whatever the forecast and recent
   rain amounts, and does not make the recent-rain query. *)
C8_RainChanceSkips ==
    (/\ lastEval.made /\ config.forecast_enabled
     /\ lastEval.forecast.status = "success"
     /\ lastEval.forecast.rain_chance >= config.skip_percentage)
        => /\ lastEval.eval.conditions.skip_irrigation
           /\ ~lastEval.eval.queried_recent
           /\ ~lastEval.eval.aborted

(* the rain chance equals the skip percentage, with rain amounts that would
   not skip by themselves, and the evaluation skipped *)
C8_SkippedOnChance ==
    /\ lastEval.made /\ config.forecast_enabled /\ config.recent_enabled
    /\ lastEval.forecast.status = "success"
    /\ lastEval.forecast.rain_chance = config.skip_percentage
    /\ lastEval.forecast.rain_mm = 0
    /\ lastEval.recent.status = "success" /\ lastEval.recent.rain_mm = 0
    /\ lastEval.eval.conditions.skip_irrigation

(* C9 as stated: when the rain chance is below skip_percentage and the
   forecast rain is at or over the threshold, the evaluation skips and does
   not make the recent-rain query. *)
C9_ForecastRainAlwaysSkips ==
    ForecastRainOver
        => /\ lastEval.eval.conditions.skip_irrigation
           /\ ~lastEval.eval.queried_recent

(* C9, amended: when the rain chance is below skip_percentage and the
   forecast rain is at or over the threshold, the app controller skips
   without making the recent-rain query; the z2m controller skips exactly
   when forecast_rain / threshold * skip_percentage >= 80, and makes the
   recent-rain query whenever recent rain is enabled. *)
C9_ForecastRainSkips ==
    ForecastRainOver
        => IF variant = "app"
           THEN /\ lastEval.eval.conditions.skip_irrigation
                /\ ~lastEval.eval.queried_recent
           ELSE /\ ~lastEval.eval.aborted
                /\ lastEval.eval.conditions.skip_irrigation
                     <=> (lastEval.forecast.rain_mm * config.skip_percentage
                            >= HighConfidence * config.forecast_threshold)
                /\ lastEval.eval.queried_recent = config.recent_enabled

(* z2m: forecast rain at the threshold with a skip percentage of 70 gives a
   skip_chance of 70, and the evaluation does not skip *)
C9_NotSkippedZ2M ==
    /\ ForecastRainOver /\ variant = "z2m"
    /\ lastEval.forecast.rain_mm = config.forecast_threshold
    /\ config.recent_enabled /\ lastEval.eval.queried_recent
    /\ ~lastEval.eval.conditions.skip_irrigation

(* C10: when no forecast rule skips and the recent-rain query gives an
   amount at or over the threshold, then with compensation the evaluation
   does not skip and reduction_factor = 1 - min(compensation_ratio,
   recent_rain / (2 * threshold)), and without compensation it skips; with
   an amount under the threshold it proceeds with reduction_factor 1. *)
C10_RecentRain ==
    (/\ lastEval.made /\ ~lastEval.eval.aborted /\ ~ForecastRuleSkips
     /\ config.recent_enabled /\ lastEval.recent.status = "success")
        => LET c == lastEval.eval.conditions
               r == lastEval.recent.rain_mm
               thr == config.recent_threshold
               ratio == config.compensation_ratio
           IN IF r >= thr
              THEN IF config.compensation_enabled
                   THEN /\ ~c.skip_irrigation /\ c.reduce_duration
                        /\ IF ratio * 2 * thr <= 100 * r
                           THEN FracEq(c.reduction_factor,
                                       Frac(100 - ratio, 100))
                           ELSE FracEq(c.reduction_factor,
                                       Frac(2 * thr - r, 2 * thr))
                   ELSE c.skip_irrigation
              ELSE /\ ~c.skip_irrigation /\ ~c.reduce_duration
                   /\ FracEq(c.reduction_factor, One)

(* recent rain of 12 mm over a threshold of 10 mm with a ratio of 0.8: the
   factor is 1 - 12/20 *)
C10_Reduced ==
    /\ lastEval.made /\ ~ForecastRuleSkips /\ config.forecast_enabled
    /\ config.recent_enabled /\ config.compensation_enabled
    /\ config.compensation_ratio = 80
    /\ lastEval.recent.status = "success" /\ lastEval.recent.rain_mm = 12
    /\ lastEval.eval.conditions.reduce_duration
    /\ FracEq(lastEval.eval.conditions.reduction_factor, Frac(2, 5))

(* C11: the reduction_factor of every evaluation lies in (0, 1]: it is
   never 0 or negative and never above 1. *)
C11_FactorInRange ==
    lastEval.made
        => LET f == lastEval.eval.conditions.reduction_factor
           IN /\ f.den > 0 /\ f.num > 0
              /\ FracLE(f, One)

-----------------------------------------------------------------------------
(* Properties of the scheduled pass (under Spec) *)

(* the zone is enabled, today's weekday is among its days, and now is within
   w seconds of today's scheduled instant *)
DueWithin(z, w) ==
    /\ z.enabled = TRUE
    /\ \E d \in z.days : DayTag(d) = Today
    /\ Abs(now - ScheduleTime(z)) <= w

(* the step is task t's pass going on from its position in the zone list *)
PassStep(t) ==
    tasks[t].kind = "tick" /\ tasks[t].pc = "loop" /\ tasks'[t] # tasks[t]

(* the position of the zone the step selects (started or skipped for its
   soil moisture), or one past the last zone when the pass returns *)
Selected(t) ==
    CASE tasks'[t].pc = "valve_on" -> tasks'[t].idx
      [] tasks'[t].pc = "loop" -> tasks'[t].idx - 1
      [] OTHER -> Len(ZoneOrder) + 1

(* a sensor read raised in the step: the pass is left without a selection *)
PassRaised == variant = "app" /\ main'.pc = "dead"

(* the step passes over the zones that are not due within w seconds and
   selects one that is *)
SelectsDueWithin(t, w) ==
    (PassStep(t) /\ ~PassRaised)
        => /\ \A k \in tasks[t].idx .. (Selected(t) - 1) :
                 ~DueWithin(zones[ZoneOrder[k]], w)
           /\ Selected(t) <= Len(ZoneOrder)
                 => DueWithin(zones[ZoneOrder[Selected(t)]], w)

(* C12 as stated: a tick matches an enabled zone exactly when today is among
   its days and now is within 60 seconds of its scheduled instant. *)
C12_MatchesWithin60 ==
    [][\A t \in TaskIds : SelectsDueWithin(t, 60)]_vars

(* C12, amended: a tick matches a zone exactly when the zone is enabled,
   today is among its days (compared by the first three letters, lower
   case), and now is within the window of its scheduled instant: 60 seconds
   in the app controller, 300 seconds in the z2m controller. *)
C12_MatchesWithinWindow ==
    [][\A t \in TaskIds :
          SelectsDueWithin(t, IF variant = "app" THEN 60 ELSE 300)]_vars

(* z2m: a pass at 05:04:30 has started a zone scheduled for 05:00 *)
C12_StartedLateZ2M ==
    \E t \in TaskIds :
        /\ variant = "z2m" /\ tasks[t].kind = "tick"
        /\ tasks[t].pc = "valve_on"
        /\ ScheduleTime(zones[tasks[t].zone]) = 18000 /\ now = 18270

(* n / d rounded to the nearest integer *)
Rounded(n, d) == (2 * n + d) \div (2 * d)

(* the factor a pass applies: reduction_factor when the evaluation reduces *)
AppliedFactor(cond) ==
    IF cond.reduce_duration THEN cond.reduction_factor ELSE One

(* C13: a zone started by a tick runs for round(zone.duration *
   reduction_factor) minutes, and for 1 minute at least. *)
C13_RoundedAndClamped ==
    \A t \in TaskIds :
        (tasks[t].kind = "tick" /\ tasks[t].pc = "valve_on")
            => LET f == AppliedFactor(tasks[t].cond)
                   d == zones[tasks[t].zone].duration
               IN tasks[t].duration = Max(1, Rounded(d * f.num, f.den))

(* the zone is enabled and today's weekday is among its days *)
DueToday(z) == z.enabled = TRUE /\ \E d \in z.days : DayTag(d) = Today

(* the minutes of the zones at the given positions that are due today *)
RECURSIVE MinutesDueToday(_)
MinutesDueToday(i) ==
    IF i > Len(ZoneOrder) THEN 0
    ELSE (IF DueToday(zones[ZoneOrder[i]])
          THEN zones[ZoneOrder[i]].duration ELSE 0) + MinutesDueToday(i + 1)

(* the step is task t's pass of the app controller returning on a skip *)
SkipStep(t) ==
    /\ variant = "app" /\ tasks[t].kind = "tick" /\ tasks[t].pc = "start"
    /\ tasks'[t] = NoTask /\ main'.pc = "sleep"

(* C14: when a tick's evaluation skips, no zone matched in the tick is
   started, and the full duration of each of them (of every enabled zone due
   today, at 10 litres a minute) is added to water_saved. *)
C14_SkipSavesFullDuration ==
    [][\A t \in TaskIds :
          SkipStep(t)
              => /\ \A u \in TaskIds \ {t} : tasks'[u] = tasks[u]
                 /\ zones' = zones /\ valve' = valve
                 /\ \A k \in 1..Len(ZoneOrder) :
                        DueWithin(zones[ZoneOrder[k]], 60)
                            => DueToday(zones[ZoneOrder[k]])
                 /\ stats'.water_saved
                      = stats.water_saved + 10 * MinutesDueToday(1)]_vars

(* a tick skipped with both zones matched: neither has run, and the
   minutes of both are in water_saved *)
C14_Skipped ==
    /\ variant = "app" /\ stats.weather_skip_count = 1
    /\ \A z \in ZoneNames :
          DueWithin(zones[z], 60) /\ zones[z].status = "idle"
    /\ stats.water_saved
         = 10 * (zones["front"].duration + zones["back"].duration)

(* C15: a pass evaluates the weather once, at its start, and applies that
   one evaluation (reduce flag and reduction_factor) to every zone it
   matches: the conditions it holds never change while it goes through its
   zones, and each zone it starts is given the duration they imply. *)
C15_OneDecisionPerTick ==
    [][\A t \in TaskIds :
          (tasks[t].kind = "tick" /\ tasks[t].pc # "start"
             /\ tasks'[t].kind = "tick")
              => /\ tasks'[t].cond = tasks[t].cond
                 /\ tasks'[t].pc # "start"
                 /\ (tasks[t].pc = "loop" /\ tasks'[t].pc = "valve_on")
                      => LET c == tasks[t].cond
                             d == zones[tasks'[t].zone].duration
                         IN tasks'[t].override
                              = IF c.reduce_duration
                                THEN (d * c.reduction_factor.num)
                                         \div c.reduction_factor.den
                                ELSE d]_vars

(* a pass that reduces has run the first zone and is starting the second *)
C15_SecondZoneSameDecision ==
    \E t \in TaskIds :
        /\ tasks[t].kind = "tick" /\ tasks[t].pc = "valve_on"
        /\ tasks[t].zone = ZoneOrder[2]
        /\ tasks[t].cond.reduce_duration
        /\ zones[ZoneOrder[1]].status = "completed"

(* C16: an error raised inside a scheduled tick does not terminate the
   periodic driver: main() is never ended by an exception of a tick, so
   later ticks still occur. *)
C16_DriverSurvivesTick == main.pc # "dead"

-----------------------------------------------------------------------------
(* Properties of manual starts (under Spec) *)

(* C17: a manual start in test mode runs the zone for exactly 1 minute,
   whatever the duration override (2 minutes, or none) and the zone's
   configured duration: the wait ends 60 seconds after the valve turned on. *)
C17_TestModeOneMinute ==
    \A t \in TaskIds :
        (tasks[t].test_mode /\ InRun(tasks[t]))
            => /\ tasks[t].duration = 1
               /\ tasks[t].on_ok => now - tasks[t].start <= 60
               /\ tasks[t].pc = "valve_off" => now - tasks[t].start = 60

(* a test-mode run with an override of 2 minutes on a zone of 2 minutes has
   ended its wait *)
C17_TestRunWaited ==
    \E t \in TaskIds :
        /\ tasks[t].test_mode /\ tasks[t].pc = "valve_off"
        /\ tasks[t].override = 2 /\ zones[tasks[t].zone].duration = 2

-----------------------------------------------------------------------------
(* Properties of the water accounts (under Spec) *)

(* C18: a run whose wait completes adds the run's minutes times a fixed
   assumed flow (some whole number of litres per minute, up to 20) to the
   zone's total_water_used, and leaves the status completed.  Water is
   counted in tenths of a litre. *)
C18_WaterByAssumedFlow ==
    (ended.outcome = "completed" /\ variant = "app")
        => /\ ended.status = "completed"
           /\ \E k \in 1..20 : ended.water = 10 * k * ended.minutes


(* C19: whatever step is taken (a run completing, stopping or failing, a
   tick, a toggle or an update of a zone), no zone's total_water_used
   decreases. *)
C19_TotalNeverDecreases ==
    [][\A z \in ZoneNames :
          zones'[z].total_water_used >= zones[z].total_water_used]_vars

-----------------------------------------------------------------------------
(* Properties of the request handlers (under Spec) *)

(* a request of any of the three handlers that names a zone the controller
   does not have *)
UnknownZoneRequest ==
    \/ \E d \in Overrides, tm \in BOOLEAN : api_run_zone(UnknownZone, d, tm)
    \/ \E en \in BOOLEAN : api_toggle_zone(UnknownZone, en)
    \/ \E key \in UpdateKeys : api_update_zone(UnknownZone, key)

(* C20: a start, toggle or update request naming an unknown zone is
   answered "Zone not found" and changes no zone field, no statistic, no
   valve, and creates no run. *)
C20_UnknownZoneChangesNothing ==
    [][UnknownZoneRequest
          => /\ response'.body = "Zone not found"
             /\ zones' = zones /\ stats' = stats
             /\ tasks' = tasks /\ valve' = valve]_vars

(* a toggle of an unknown zone has been answered *)
C20_UnknownToggled ==
    /\ calls = 1 /\ variant = "app"
    /\ response = Answer("toggle_zone", "Zone not found")

-----------------------------------------------------------------------------
(* Properties of stopZone (under SpecStop) *)

(* everything a stopZone call could change, but the count of calls and the
   answer *)
StopFrame == <<variant, config, zones, stats, tasks, main, now, valve,
               sensors, ended, lastEval, history, historyLog, cycle>>

(* C21: stopZone on a zone with no active run answers NotRunning and changes
   no state; a second call on the same zone meets the same state and so has
   the same answer and effect. *)
C21_StopIdleIsNoOp ==
    [][\A zn \in ZoneNames :
          (stopZone(zn) /\ ActiveRuns(zn) = {})
              => /\ response' = Answer("stopZone", "NotRunning")
                 /\ StopFrame' = StopFrame]_vars

(* stopZone was called twice, the second time on a zone with no run, after a
   zone had run *)
C21_StoppedTwiceIdle ==
    /\ calls = 2 /\ response = Answer("stopZone", "NotRunning")
    /\ \E zn \in ZoneNames : zones[zn].status # "idle"
    /\ \A zn \in ZoneNames : ActiveRuns(zn) = {}

-----------------------------------------------------------------------------
(* Properties of the history store (under SpecHistory) *)

(* the sum of the addWater amounts among the first n calls *)
RECURSIVE WaterAdded(_, _)
WaterAdded(log, n) ==
    IF n = 0 THEN 0
    ELSE WaterAdded(log, n - 1)
         + (IF log[n][1] = "addWater" THEN log[n][2] ELSE 0)

(* the amount of the last setRainfall among the first n calls, 0 if none *)
RECURSIVE LastRainfall(_, _)
LastRainfall(log, n) ==
    IF n = 0 THEN 0
    ELSE IF log[n][1] = "setRainfall" THEN log[n][2]
    ELSE LastRainfall(log, n - 1)

(* C22: after every call on the store, in whatever order the calls come,
   today's waterUsedLiters is the sum of all addWater amounts and is not
   less than before, and today's rainfallMm is the amount of the most recent
   setRainfall. *)
C22_WaterSumsRainfallOverwrites ==
    [][/\ history'.waterUsedLiters = WaterAdded(historyLog', Len(historyLog'))
       /\ history'.waterUsedLiters >= history.waterUsedLiters
       /\ history'.rainfallMm = LastRainfall(historyLog', Len(historyLog'))]_vars

(* addWater(50) twice gave 100, setRainfall(3) then setRainfall(5) gave 5 *)
C22_FiftyTwiceThreeThenFive ==
    /\ historyLog = <<<<"addWater", 50>>, <<"setRainfall", 3>>,
                      <<"addWater", 50>>, <<"setRainfall", 5>>>>
    /\ history.waterUsedLiters = 100 /\ history.rainfallMm = 5

-----------------------------------------------------------------------------
(* Properties of the driver and its runs (under Spec) *)

(* when the driver's next tick is due *)
NextTickAt == IF variant = "app" THEN main.wake ELSE main.next_run

(* the cadence of the driver: a tick every 60 seconds *)
Cadence == IF variant = "app" THEN TickSleepApp ELSE JobPeriodZ2M

(* C23: while a run is suspended in its duration wait (and the program has
   not been torn down), the driver is not held by it: it sleeps until its
   next tick, which is due within the cadence. *)
C23_DriverTicksDuringWait ==
    \A t \in TaskIds :
        (Running /\ InRun(tasks[t]) /\ tasks[t].pc = "sleep")
            => /\ main.pc = "sleep"
               /\ NextTickAt - now <= Cadence

(* the valve-off call of task t has returned a failure: the run ends as
   completed with its valve still on *)
ValveOffRefused(t) ==
    /\ tasks[t].pc = "valve_off"
    /\ ended' # ended /\ ended'.slot = t /\ ended'.outcome = "completed"
    /\ valve[tasks[t].zone] = "on" /\ valve'[tasks[t].zone] = "on"

(* C24: when the valve-off call at the end of a run reports failure, the
   run still ends with the status completed that its full wait earned, the
   call was made once, and the task has left the run without calling
   again. *)
C24_ValveOffFailureKeepsCompleted ==
    [][\A t \in TaskIds :
          ValveOffRefused(t)
              => /\ ended'.waited
                 /\ ended'.status = "completed"
                 /\ zones'[ended'.zone].status = "completed"
                 /\ ended'.off_calls = 1
                 /\ tasks'[t].pc # "valve_off"]_vars

(* a run has ended completed on a refused valve-off call: the valve is on
   and no run of the zone is in progress *)
C24_CompletedValveOn ==
    /\ ended.outcome = "completed" /\ ended.off_calls = 1
    /\ ended.status = "completed"
    /\ valve[ended.zone] = "on" /\ ActiveRuns(ended.zone) = {}

-----------------------------------------------------------------------------
(* Frame of the weather evaluation (under SpecWeather, whose every step is
   one call of check_weather_conditions) *)

(* C25: a weather evaluation, whatever it decides, leaves every field of
   every zone as it was: status, last_run, total_water_used, enabled,
   schedule, days and duration among them. *)
C25_EvaluationLeavesZones ==
    [][lastEval'.made => zones' = zones]_vars

(* an evaluation has decided to skip, and the zones are as configured *)
C25_EvaluatedSkip ==
    /\ lastEval.made /\ lastEval.eval.conditions.skip_irrigation
    /\ \A z \in ZoneNames : zones[z].status = "idle" /\ zones[z].enabled = TRUE

-----------------------------------------------------------------------------
(* Properties of the scheduled starts (under Spec) *)

(* the pass of task t starts a run of zone zn in this step *)
TickStarts(t, zn) ==
    /\ tasks[t].kind = "tick" /\ tasks[t].pc = "loop"
    /\ tasks'[t].pc = "valve_on" /\ tasks'[t].zone = zn

(* C26: in the app, with no request served (so that the schedule is the
   configured one and every start is a scheduled one), the ticks start a
   zone at most once for its occurrence of today: a pass starts only a zone
   that has not been started before. *)
C26_StartedAtMostOnce ==
    [][\A t \in TaskIds, zn \in ZoneNames :
          (variant = "app" /\ calls = 0 /\ TickStarts(t, zn))
              => zones[zn].last_run = NoValue]_vars

(* the two zones are enabled and due today at the same instant, and no soil
   sensor can skip the second *)
SameOccurrence ==
    /\ DueToday(zones["front"]) /\ DueToday(zones["back"])
    /\ ScheduleTime(zones["front"]) = ScheduleTime(zones["back"])
    /\ ~zones["back"].moisture_sensor

(* C27: with both zones due at the same instant and no request served, once
   a tick (whose decision then was not to skip) has started the first zone,
   the second is started too: while it has not been started, a tick can
   still match it, that is, its window is not over. *)
C27_BothStarted ==
    (/\ Running /\ calls = 0 /\ SameOccurrence
     /\ zones["front"].last_run # NoValue
     /\ zones["back"].last_run = NoValue)
        => now <= ScheduleTime(zones["back"]) + Window(variant)

(* the pass of task t has started a run under a reduce decision with a
   factor below 1 *)
ReducedStart(t) ==
    /\ tasks[t].kind = "tick" /\ tasks[t].pc = "valve_on"
    /\ tasks[t].cond.reduce_duration
    /\ FracLE(tasks[t].cond.reduction_factor, One)
    /\ ~FracEq(tasks[t].cond.reduction_factor, One)

-----------------------------------------------------------------------------
(* Properties of the valves (under Spec) *)

-----------------------------------------------------------------------------
(* Frame of a tick that matches no zone (under Spec) *)

(* the pass of task t takes a step: its weather check or its loop *)
TickStep(t) ==
    /\ tasks[t].kind = "tick" /\ tasks[t].pc \in {"start", "loop"}
    /\ tasks'[t] # tasks[t]

(* no zone is enabled, due today and within the window of now *)
NoZoneDue == \A z \in ZoneNames : ~DueWithin(zones[z], Window(variant))

(* C30: a step of a tick taken when no zone's schedule matches now leaves
   water_saved and every zone as they were, whatever the weather check of
   the tick decides. *)
C30_IdleTickChangesNothing ==
    [][\A t \in TaskIds :
          (TickStep(t) /\ NoZoneDue)
              => /\ stats'.water_saved = stats.water_saved
                 /\ zones' = zones]_vars

-----------------------------------------------------------------------------
(* Shape of the decision (under SpecWeather) *)

(* C31: no evaluation, of either controller, returns conditions with
   skip_irrigation set together with a reduction (reduce_duration set, or a
   reduction_factor other than 1): the decision is skip, or reduce, or
   neither. *)
C31_SkipExcludesReduce ==
    lastEval.made
        => LET c == lastEval.eval.conditions
           IN ~(/\ c.skip_irrigation
                /\ (c.reduce_duration \/ ~FracEq(c.reduction_factor, One)))

(* the app has skipped on the forecast while the recent rain, had it been
   asked for, would have reduced the duration *)
C31_SkippedWithRecentRain ==
    /\ lastEval.made /\ variant = "app"
    /\ lastEval.eval.conditions.skip_irrigation
    /\ ~lastEval.eval.conditions.reduce_duration
    /\ config.recent_enabled /\ config.compensation_enabled
    /\ lastEval.recent.status = "success"
    /\ lastEval.recent.rain_mm >= config.recent_threshold

-----------------------------------------------------------------------------
(* Properties of the single-shot cycle (under SpecCycle) *)

(* main has returned, or the process has ended *)
CycleEnded == cycle.pc \in {"done", "skipped", "failed", "interrupted"}

(* C32: when the cycle has ended, every valve topic that was sent an ON
   command has been sent an OFF command after it: the last command sent to
   a topic is never ON. *)
C32_EveryOnIsTurnedOff ==
    CycleEnded
        => \A tp \in TopicNames :
              cycle.sent[tp] # <<>>
                  => cycle.sent[tp][Len(cycle.sent[tp])] = "OFF"

-----------------------------------------------------------------------------
(* Status and last_run of a zone (under Spec) *)

(* C33: in every reachable state a zone's last_run is unset exactly when its
   status is idle: run_zone sets both together, and nothing sets either
   back to its initial value. *)
C33_LastRunUnsetIffIdle ==
    \A z \in ZoneNames :
        (zones[z].last_run = NoValue) <=> (zones[z].status = "idle")

(* a zone has run to completion and carries the time of its start, while
   another zone has never run *)
C33_OneRanOneIdle ==
    \E z, y \in ZoneNames :
        /\ zones[z].status = "completed" /\ zones[z].last_run # NoValue
        /\ zones[y].status = "idle" /\ zones[y].last_run = NoValue

====
